---- MODULE Spec2Model ----
(***************************************************************************)
(* Model of notebooks/utils_diff.py: the unified-diff hunk extractor       *)
(* (get_line_numbers, get_hunks) and the per-file diff reporter            *)
(* (iterate_over, compute_diff_per_file).                                  *)
(*                                                                         *)
(* A Python str is a sequence of one-character strings, so that split,     *)
(* rstrip, startswith, replace and int are computed character by           *)
(* character, as the interpreter computes them.                            *)
(***************************************************************************)
EXTENDS Integers, Sequences, FiniteSets, TLC

(***************************************************************************)
(* Bounds of the model.                                                    *)
(***************************************************************************)
\* longest diff text, in lines, that get_hunks is run on
MaxLines == 4
\* longest diff text, in lines, of a caller that runs get_hunks repeatedly
MaxCallLines == 1
\* most runs of get_hunks by one caller
MaxCalls == 3
\* most bug folders in the repositories given to compute_diff_per_file
MaxFolders == 2
\* longest diff text, in lines, with header lines of other shapes
MaxHeaderLines == 3

(***************************************************************************)
(* Python str operations used by utils_diff.py.                            *)
(***************************************************************************)
NL == "\n"

Whitespace == {" ", "\t", "\n", "\r", "\f"}

Digits == <<"0", "1", "2", "3", "4", "5", "6", "7", "8", "9">>

IsDigit(c) == \E d \in 1..10 : Digits[d] = c

DigitVal(c) == (CHOOSE d \in 1..10 : Digits[d] = c) - 1

\* str(n) for n >= 0, as str.format renders an int
RECURSIVE IntToStr(_)
IntToStr(n) ==
    IF n < 10 THEN <<Digits[n + 1]>>
    ELSE IntToStr(n \div 10) \o <<Digits[(n % 10) + 1]>>

\* s.startswith(p)
StartsWith(s, p) ==
    /\ Len(s) >= Len(p)
    /\ \A k \in 1..Len(p) : s[k] = p[k]

\* s.rstrip(): drop the trailing whitespace
RStrip(s) ==
    LET keep == {k \in 1..Len(s) : s[k] \notin Whitespace}
        last == IF keep = {} THEN 0
                ELSE CHOOSE k \in keep : \A j \in keep : j <= k
    IN  SubSeq(s, 1, last)

\* s.lstrip(); int() strips its argument on both sides
LStrip(s) ==
    LET keep == {k \in 1..Len(s) : s[k] \notin Whitespace}
        first == IF keep = {} THEN Len(s) + 1
                 ELSE CHOOSE k \in keep : \A j \in keep : k <= j
    IN  SubSeq(s, first, Len(s))

\* s.replace(c, "")
RemoveChar(s, c) == SelectSeq(s, LAMBDA x : x # c)

\* s.split(sep) for a one-character sep: one piece more than there are
\* separators, so always at least one piece
Split(s, sep) ==
    LET at == {k \in 1..Len(s) : s[k] = sep}
        n == Cardinality(at)
        cut(m) == IF m = 0 THEN 0
                  ELSE IF m > n THEN Len(s) + 1
                  ELSE CHOOSE k \in at : Cardinality({j \in at : j <= k}) = m
    IN  [m \in 1..(n + 1) |-> SubSeq(s, cut(m - 1) + 1, cut(m) - 1)]

\* sep.join(items) for a one-character sep
RECURSIVE Join(_, _)
Join(items, sep) ==
    IF items = <<>> THEN <<>>
    ELSE IF Len(items) = 1 THEN items[1]
    ELSE items[1] \o <<sep>> \o Join(Tail(items), sep)

\* s.find(p): 0-based index of the first occurrence, -1 when there is none
Find(s, p) ==
    LET at == {k \in 0..(Len(s) - Len(p)) : SubSeq(s, k + 1, k + Len(p)) = p}
    IN  IF at = {} THEN 0 - 1
        ELSE CHOOSE k \in at : \A j \in at : k <= j

\* the value of a non-empty run of decimal digits
RECURSIVE DigitsValue(_, _)
DigitsValue(s, acc) ==
    IF s = <<>> THEN acc
    ELSE DigitsValue(Tail(s), 10 * acc + DigitVal(Head(s)))

\* int(s): surrounding whitespace and one sign are accepted, then decimal
\* digits only; anything else raises ValueError
IntBody(s) ==
    LET t == RStrip(LStrip(s))
    IN  IF Len(t) > 0 /\ t[1] \in {"+", "-"} THEN Tail(t) ELSE t

IntOk(s) ==
    /\ Len(IntBody(s)) > 0
    /\ \A k \in 1..Len(IntBody(s)) : IsDigit(IntBody(s)[k])

IntValue(s) ==
    LET t == RStrip(LStrip(s))
        v == DigitsValue(IntBody(s), 0)
    IN  IF Len(t) > 0 /\ t[1] = "-" THEN 0 - v ELSE v

(***************************************************************************)
(* difflib.unified_diff(a, b) as compute_diff_per_file calls it: default   *)
(* file names and dates (empty), n = 3 lines of context, lineterm "\n".    *)
(* a and b are lists of lines; positions are 0-based as in difflib.        *)
(* A block is <<i, j, k>>: a[i:i+k] == b[j:j+k]; an opcode is              *)
(* <<tag, i1, i2, j1, j2>>.                                                *)
(***************************************************************************)
ContextLines == 3

Min(x, y) == IF x <= y THEN x ELSE y

Max(x, y) == IF x >= y THEN x ELSE y

\* a[i:j] of a Python list
Slice(a, i, j) == SubSeq(a, i + 1, j)

\* the blocks <<i, j, k>> with k > 0 inside a[alo:ahi], b[blo:bhi]
common_blocks(a, b, alo, ahi, blo, bhi) ==
    {m \in (alo..ahi) \X (blo..bhi) \X (1..Max(ahi - alo, 1)) :
        /\ m[1] + m[3] <= ahi
        /\ m[2] + m[3] <= bhi
        /\ Slice(a, m[1], m[1] + m[3]) = Slice(b, m[2], m[2] + m[3])}

\* m is chosen before o: longer, else earlier in a, else earlier in b
chosen_before(m, o) ==
    \/ m[3] > o[3]
    \/ m[3] = o[3] /\ m[1] < o[1]
    \/ m[3] = o[3] /\ m[1] = o[1] /\ m[2] <= o[2]

best_block(blocks, alo, blo) ==
    IF blocks = {} THEN <<alo, blo, 0>>
    ELSE CHOOSE m \in blocks : \A o \in blocks : chosen_before(m, o)

\* SequenceMatcher.find_longest_match without junk: the longest block in
\* a[alo:ahi], b[blo:bhi]; of those the one starting earliest in a, then
\* earliest in b; <<alo, blo, 0>> when no element matches
find_longest_match(a, b, alo, ahi, blo, bhi) ==
    best_block(common_blocks(a, b, alo, ahi, blo, bhi), alo, blo)

\* SequenceMatcher.get_matching_blocks, before the closing <<la, lb, 0>>:
\* the longest block m, the blocks to its left and those to its right
\* (without junk no two blocks are adjacent, so none are merged)
RECURSIVE matching_blocks(_, _, _, _, _, _)
RECURSIVE blocks_around(_, _, _, _, _, _, _)
blocks_around(a, b, alo, ahi, blo, bhi, m) ==
    IF m[3] = 0 THEN <<>>
    ELSE (IF alo < m[1] /\ blo < m[2]
          THEN matching_blocks(a, b, alo, m[1], blo, m[2]) ELSE <<>>)
         \o <<m>>
         \o (IF m[1] + m[3] < ahi /\ m[2] + m[3] < bhi
             THEN matching_blocks(a, b, m[1] + m[3], ahi, m[2] + m[3], bhi)
             ELSE <<>>)

matching_blocks(a, b, alo, ahi, blo, bhi) ==
    blocks_around(a, b, alo, ahi, blo, bhi,
                  find_longest_match(a, b, alo, ahi, blo, bhi))

\* the opcodes of one block <<ai, bj, size>> reached from (i, j)
block_opcodes(i, j, ai, bj, size) ==
    (IF i < ai /\ j < bj THEN << <<"replace", i, ai, j, bj>> >>
     ELSE IF i < ai THEN << <<"delete", i, ai, j, bj>> >>
     ELSE IF j < bj THEN << <<"insert", i, ai, j, bj>> >>
     ELSE <<>>)
    \o (IF size > 0 THEN << <<"equal", ai, ai + size, bj, bj + size>> >>
        ELSE <<>>)

\* SequenceMatcher.get_opcodes
RECURSIVE opcodes_from(_, _, _)
opcodes_from(blocks, i, j) ==
    IF blocks = <<>> THEN <<>>
    ELSE block_opcodes(i, j, blocks[1][1], blocks[1][2], blocks[1][3])
         \o opcodes_from(Tail(blocks), blocks[1][1] + blocks[1][3],
                         blocks[1][2] + blocks[1][3])

get_opcodes(a, b) ==
    opcodes_from(
        Append(matching_blocks(a, b, 0, Len(a), 0, Len(b)),
               <<Len(a), Len(b), 0>>),
        0, 0)

\* SequenceMatcher.get_grouped_opcodes(n): the loop over the trimmed codes;
\* group is the group being built
RECURSIVE groups_from(_, _, _)
groups_from(codes, group, n) ==
    IF codes = <<>>
    THEN IF group # <<>> /\ ~(Len(group) = 1 /\ group[1][1] = "equal")
         THEN <<group>> ELSE <<>>
    ELSE IF codes[1][1] = "equal" /\ codes[1][3] - codes[1][2] > n + n
    THEN <<Append(group,
                  <<"equal", codes[1][2], Min(codes[1][3], codes[1][2] + n),
                    codes[1][4], Min(codes[1][5], codes[1][4] + n)>>)>>
         \o groups_from(
               Tail(codes),
               << <<"equal", Max(codes[1][2], codes[1][3] - n), codes[1][3],
                    Max(codes[1][4], codes[1][5] - n), codes[1][5]>> >>,
               n)
    ELSE groups_from(Tail(codes), Append(group, codes[1]), n)

\* get_grouped_opcodes: no opcodes at all stand for one equal line
or_one_equal(codes) ==
    IF codes = <<>> THEN << <<"equal", 0, 1, 0, 1>> >> ELSE codes

\* get_grouped_opcodes: a leading equal opcode keeps its last n lines
trim_first(codes, n) ==
    IF codes[1][1] = "equal"
    THEN [codes EXCEPT ![1] =
             <<"equal", Max(@[2], @[3] - n), @[3], Max(@[4], @[5] - n), @[5]>>]
    ELSE codes

\* get_grouped_opcodes: a trailing equal opcode keeps its first n lines
trim_last(codes, n) ==
    IF codes[Len(codes)][1] = "equal"
    THEN [codes EXCEPT ![Len(codes)] =
             <<"equal", @[2], Min(@[3], @[2] + n), @[4], Min(@[5], @[4] + n)>>]
    ELSE codes

get_grouped_opcodes(a, b, n) ==
    groups_from(trim_last(trim_first(or_one_equal(get_opcodes(a, b)), n), n),
                <<>>, n)

\* difflib._format_range_unified
format_range_unified(start, stop) ==
    IF stop - start = 1 THEN IntToStr(start + 1)
    ELSE IntToStr(IF stop - start = 0 THEN start ELSE start + 1)
         \o <<",">> \o IntToStr(stop - start)

\* every line of ls with the prefix in front
Prefixed(prefix, ls) == [k \in 1..Len(ls) |-> <<prefix>> \o ls[k]]

\* the lines unified_diff yields for one opcode
opcode_lines(a, b, c) ==
    IF c[1] = "equal" THEN Prefixed(" ", Slice(a, c[2], c[3]))
    ELSE (IF c[1] \in {"replace", "delete"}
          THEN Prefixed("-", Slice(a, c[2], c[3])) ELSE <<>>)
         \o (IF c[1] \in {"replace", "insert"}
             THEN Prefixed("+", Slice(b, c[4], c[5])) ELSE <<>>)

RECURSIVE group_lines(_, _, _)
group_lines(a, b, codes) ==
    IF codes = <<>> THEN <<>>
    ELSE opcode_lines(a, b, codes[1]) \o group_lines(a, b, Tail(codes))

\* the header '@@ -{} +{} @@\n' of a group
group_header(first, last) ==
    <<"@", "@", " ", "-">> \o format_range_unified(first[2], last[3])
        \o <<" ", "+">> \o format_range_unified(first[4], last[5])
        \o <<" ", "@", "@", NL>>

RECURSIVE groups_lines(_, _, _)
groups_lines(a, b, groups) ==
    IF groups = <<>> THEN <<>>
    ELSE <<group_header(groups[1][1], groups[1][Len(groups[1])])>>
         \o group_lines(a, b, groups[1])
         \o groups_lines(a, b, Tail(groups))

\* the two file lines '--- \n' and '+++ \n', then the groups; nothing when
\* there is no group
diff_lines(a, b, groups) ==
    IF groups = <<>> THEN <<>>
    ELSE << <<"-", "-", "-", " ", NL>>, <<"+", "+", "+", " ", NL>> >>
         \o groups_lines(a, b, groups)

\* list(difflib.unified_diff(a, b))
unified_diff(a, b) == diff_lines(a, b, get_grouped_opcodes(a, b, ContextLines))

\* content.splitlines(False) of a text whose only line boundary is "\n":
\* no empty last item after a final newline, and none for the empty text
splitlines(text) ==
    LET pieces == Split(text, NL)
    IN  IF pieces[Len(pieces)] = <<>>
        THEN SubSeq(pieces, 1, Len(pieces) - 1)
        ELSE pieces

\* mutant of line 162: the text is not cut at the first "@@"
FromFirstHeader_Whole(text) == text

\* text[text.find("@@"):], with Python's slice from -1 when nothing is found
FromFirstHeader(text) ==
    LET k == Find(text, <<"@", "@">>)
    IN  IF k >= 0 THEN SubSeq(text, k + 1, Len(text))
        ELSE IF text = <<>> THEN <<>>
        ELSE <<text[Len(text)]>>

(***************************************************************************)
(* get_line_numbers(line): the two cursors a header line sets.             *)
(* exc is the exception the call ends in ("none" when it returns).         *)
(***************************************************************************)
get_line_numbers(l) ==
    LET token == Split(l, " ")
    IN  IF Len(token) < 3
        THEN [exc |-> "IndexError", delete_line_number |-> 0,
              additions_line_number |-> 0]
        ELSE LET numbers_old_file == token[2]
                 numbers_new_file == token[3]
                 old == RemoveChar(Split(numbers_old_file, ",")[1], "-")
                 new == Split(numbers_new_file, ",")[1]
             IN  IF ~IntOk(old) \/ ~IntOk(new)
                 THEN [exc |-> "ValueError", delete_line_number |-> 0,
                       additions_line_number |-> 0]
                 ELSE [exc |-> "none",
                       delete_line_number |-> IntValue(old) - 1,
                       additions_line_number |-> IntValue(new) - 1]

(***************************************************************************)
(* Lines of diff text.                                                     *)
(***************************************************************************)
\* r"\ No newline at end of file"
NoNewlineMarker ==
    <<"\\", " ", "N", "o", " ", "n", "e", "w", "l", "i", "n", "e", " ",
      "a", "t", " ", "e", "n", "d", " ", "o", "f", " ", "f", "i", "l", "e">>

\* the header "@@ -a,b +c,d @@"
HeaderLine(a, b, c, d) ==
    <<"@", "@", " ", "-">> \o IntToStr(a) \o <<",">> \o IntToStr(b)
        \o <<" ", "+">> \o IntToStr(c) \o <<",">> \o IntToStr(d)
        \o <<" ", "@", "@">>

\* the headers the diff texts are built from, as (a, b, c, d)
HeaderRanges == {<<10, 3, 12, 4>>}

HeaderLines == {HeaderLine(r[1], r[2], r[3], r[4]) : r \in HeaderRanges}

\* a line that starts with "@@" and has no range tokens
BareHeader == <<"@", "@">>

\* the lines the diff texts are built from: a header, a deletion, an
\* addition, the marker, two context lines (one
\* of them empty) and a header without ranges
DiffLines ==
    HeaderLines \cup
    { <<"-", "y">>, <<"+", "w">>, NoNewlineMarker,
      <<" ", "x">>, <<>>, BareHeader }

SeqsUpTo(S, n) == UNION {[1..k -> S] : k \in 0..n}

\* the diff texts get_hunks is run on
Texts == {Join(ls, NL) : ls \in SeqsUpTo(DiffLines, MaxLines)}

EmptyChunk == [added |-> <<>>, deleted |-> <<>>]

VARIABLES
    \* get_hunks: its argument, its locals, the loop position
    text_diff, lines, idx, modified_lines, count_deletions, count_additions,
    chunks, chunk, c_section, prev_section,
    \* control: where the program is, the value get_hunks returned, the
    \* exception it ended in
    pc, hunks, exc,
    \* the caller of get_hunks: the number of calls it has made, and one
    \* call it keeps for later, as <<text, returned list>> (<<>> before)
    ncalls, returned,
    \* compute_diff_per_file: the bug folders entered so far; before/ and
    \* after/ of the current bug folder (file name -> content); its locals
    \* metadata, name, reports; the items of iterate_over still to come;
    \* the table it returned
    nfolders, before, after, metadata, results, name, reports, df_reports,
    \* the names that os.listdir gives for before/ and after/ and that are
    \* no regular files, as [before |-> .., after |-> ..]
    subdirs,
    \* compute_diff_per_bug: the table it returned
    df_grouped

hunkVars ==
    <<text_diff, lines, idx, modified_lines, count_deletions, count_additions,
      chunks, chunk, c_section, prev_section>>

fileVars ==
    <<nfolders, before, after, metadata, results, name, reports, df_reports,
      subdirs, df_grouped>>

vars == <<hunkVars, pc, hunks, exc, ncalls, returned, fileVars>>

\* the line the loop is at, after line.rstrip()
CurLine == RStrip(lines[idx])

InLoop == pc = "get_hunks" /\ idx <= Len(lines)

IsHeader(l) == StartsWith(l, <<"@", "@">>)
IsDeletion(l) == ~IsHeader(l) /\ StartsWith(l, <<"-">>)
IsAddition(l) == ~IsHeader(l) /\ ~IsDeletion(l) /\ StartsWith(l, <<"+">>)
IsMarker(l) ==
    ~IsHeader(l) /\ ~IsDeletion(l) /\ ~IsAddition(l) /\ l = NoNewlineMarker
IsContext(l) ==
    ~IsHeader(l) /\ ~IsDeletion(l) /\ ~IsAddition(l) /\ ~IsMarker(l)

\* mutants of line 115: the comparison with prev_section is dropped; only
\* a run that ends in additions is closed
ClosesChunk_AnySection(c, p) == p # "header"

ClosesChunk_AfterAdditionOnly(c, p) == c # p /\ p = "add_section"

\* line 115: a context line closes the pending chunk
ClosesChunk(c, p) == c # p /\ p # "header"

\* mutant of line 125: only added lines count as pending
HasPending_AddedOnly(ch) == Len(ch.added) > 0

\* line 125: the pending chunk is flushed at the end of the input
HasPending(ch) == Len(ch.added) > 0 \/ Len(ch.deleted) > 0

\* mutant of lines 65-66: the cursors are module state that survives a call
EnterGetHunks_KeepsCursors(text) ==
    /\ text_diff' = text
    /\ lines' = Split(text, NL)
    /\ modified_lines' = EmptyChunk
    /\ UNCHANGED <<count_deletions, count_additions>>
    /\ chunks' = <<>>
    /\ c_section' = "unchanged_text"
    /\ prev_section' = "unchanged_text"
    /\ chunk' = EmptyChunk
    /\ idx' = 1
    /\ pc' = "get_hunks"
    /\ exc' = "none"

(***************************************************************************)
(* get_hunks, lines 59-77: the locals at entry.                            *)
(***************************************************************************)
EnterGetHunks(text) ==
    /\ text_diff' = text
    /\ lines' = Split(text, NL)
    /\ modified_lines' = EmptyChunk
    /\ count_deletions' = 0
    /\ count_additions' = 0
    /\ chunks' = <<>>
    /\ c_section' = "unchanged_text"
    /\ prev_section' = "unchanged_text"
    /\ chunk' = EmptyChunk
    /\ idx' = 1
    /\ pc' = "get_hunks"
    /\ exc' = "none"

(***************************************************************************)
(* get_hunks, lines 79-122: one action per branch of the loop body.        *)
(***************************************************************************)
\* mutant of lines 88-91: the header leaves the pending chunk as it is
Header_KeepsChunk ==
    /\ InLoop
    /\ IsHeader(CurLine)
    /\ get_line_numbers(CurLine).exc = "none"
    /\ c_section' = "header"
    /\ count_deletions' = get_line_numbers(CurLine).delete_line_number
    /\ count_additions' = get_line_numbers(CurLine).additions_line_number
    /\ chunk' = chunk
    /\ prev_section' = c_section'
    /\ idx' = idx + 1
    /\ UNCHANGED <<text_diff, lines, modified_lines, chunks, pc, hunks, exc,
                   ncalls, returned, fileVars>>

\* lines 84-91, get_line_numbers returns
Header ==
    /\ InLoop
    /\ IsHeader(CurLine)
    /\ get_line_numbers(CurLine).exc = "none"
    /\ c_section' = "header"
    /\ count_deletions' = get_line_numbers(CurLine).delete_line_number
    /\ count_additions' = get_line_numbers(CurLine).additions_line_number
    /\ chunk' = EmptyChunk
    /\ prev_section' = c_section'
    /\ idx' = idx + 1
    /\ UNCHANGED <<text_diff, lines, modified_lines, chunks, pc, hunks, exc,
                   ncalls, returned, fileVars>>

\* lines 84-86, get_line_numbers raises: the exception leaves get_hunks
HeaderError ==
    /\ InLoop
    /\ IsHeader(CurLine)
    /\ get_line_numbers(CurLine).exc # "none"
    /\ c_section' = "header"
    /\ count_deletions' = count_deletions + 1
    /\ count_additions' = count_additions + 1
    /\ exc' = get_line_numbers(CurLine).exc
    /\ pc' = "raised"
    /\ UNCHANGED <<text_diff, lines, idx, modified_lines, chunks, chunk,
                   prev_section, hunks, ncalls, returned, fileVars>>

\* mutant of lines 93-98: line 96 (count_additions -= 1) is missing
Deletion_KeepsAddIncrement ==
    /\ pc = "get_hunks" /\ idx <= Len(lines)
    /\ IsDeletion(RStrip(lines[idx]))
    /\ c_section' = "del_section"
    /\ count_deletions' = count_deletions + 1
    /\ count_additions' = count_additions + 1
    /\ modified_lines' =
          [modified_lines EXCEPT
              !.deleted = Append(@, <<count_deletions', Tail(RStrip(lines[idx]))>>)]
    /\ chunk' =
          [chunk EXCEPT
              !.deleted = Append(@, <<count_deletions', Tail(RStrip(lines[idx]))>>)]
    /\ prev_section' = c_section'
    /\ idx' = idx + 1
    /\ UNCHANGED <<text_diff, lines, chunks, pc, hunks, exc, ncalls,
                   returned, fileVars>>

\* mutant of lines 93-98: a deletion moves the delete cursor up by two
Deletion_CountsTwice ==
    /\ InLoop
    /\ IsDeletion(CurLine)
    /\ c_section' = "del_section"
    /\ count_deletions' = count_deletions + 2
    /\ count_additions' = (count_additions + 1) - 1
    /\ modified_lines' =
          [modified_lines EXCEPT
              !.deleted = Append(@, <<count_deletions', Tail(CurLine)>>)]
    /\ chunk' =
          [chunk EXCEPT
              !.deleted = Append(@, <<count_deletions', Tail(CurLine)>>)]
    /\ prev_section' = c_section'
    /\ idx' = idx + 1
    /\ UNCHANGED <<text_diff, lines, chunks, pc, hunks, exc, ncalls,
                   returned, fileVars>>

\* lines 93-98
Deletion ==
    /\ InLoop
    /\ IsDeletion(CurLine)
    /\ c_section' = "del_section"
    /\ count_deletions' = count_deletions + 1
    /\ count_additions' = (count_additions + 1) - 1
    /\ modified_lines' =
          [modified_lines EXCEPT
              !.deleted = Append(@, <<count_deletions', Tail(CurLine)>>)]
    /\ chunk' =
          [chunk EXCEPT
              !.deleted = Append(@, <<count_deletions', Tail(CurLine)>>)]
    /\ prev_section' = c_section'
    /\ idx' = idx + 1
    /\ UNCHANGED <<text_diff, lines, chunks, pc, hunks, exc, ncalls,
                   returned, fileVars>>

\* mutant of lines 100-105: an addition after deletions closes the chunk
Addition_ClosesDeletions ==
    /\ pc = "get_hunks" /\ idx <= Len(lines)
    /\ IsAddition(RStrip(lines[idx]))
    /\ c_section' = "add_section"
    /\ count_additions' = count_additions + 1
    /\ count_deletions' = (count_deletions + 1) - 1
    /\ modified_lines' =
          [modified_lines EXCEPT
              !.added = Append(@, <<count_additions', Tail(RStrip(lines[idx]))>>)]
    /\ IF prev_section = "del_section"
       THEN /\ chunks' = Append(chunks, chunk)
            /\ chunk' = [added |-> << <<count_additions',
                                        Tail(RStrip(lines[idx]))>> >>,
                         deleted |-> <<>>]
       ELSE /\ chunks' = chunks
            /\ chunk' =
                  [chunk EXCEPT
                      !.added = Append(@, <<count_additions',
                                            Tail(RStrip(lines[idx]))>>)]
    /\ prev_section' = c_section'
    /\ idx' = idx + 1
    /\ UNCHANGED <<text_diff, lines, pc, hunks, exc, ncalls, returned, fileVars>>

\* mutant of line 103: the delete cursor keeps the increment of line 81
Addition_KeepsDelIncrement ==
    /\ InLoop
    /\ IsAddition(CurLine)
    /\ c_section' = "add_section"
    /\ count_additions' = count_additions + 1
    /\ count_deletions' = count_deletions + 1
    /\ modified_lines' =
          [modified_lines EXCEPT
              !.added = Append(@, <<count_additions', Tail(CurLine)>>)]
    /\ chunk' =
          [chunk EXCEPT
              !.added = Append(@, <<count_additions', Tail(CurLine)>>)]
    /\ prev_section' = c_section'
    /\ idx' = idx + 1
    /\ UNCHANGED <<text_diff, lines, chunks, pc, hunks, exc, ncalls,
                   returned, fileVars>>

\* lines 100-105
Addition ==
    /\ InLoop
    /\ IsAddition(CurLine)
    /\ c_section' = "add_section"
    /\ count_additions' = count_additions + 1
    /\ count_deletions' = (count_deletions + 1) - 1
    /\ modified_lines' =
          [modified_lines EXCEPT
              !.added = Append(@, <<count_additions', Tail(CurLine)>>)]
    /\ chunk' =
          [chunk EXCEPT
              !.added = Append(@, <<count_additions', Tail(CurLine)>>)]
    /\ prev_section' = c_section'
    /\ idx' = idx + 1
    /\ UNCHANGED <<text_diff, lines, chunks, pc, hunks, exc, ncalls,
                   returned, fileVars>>

\* mutant of lines 108-109: the increments of lines 81-82 are not taken back
NoNewline_AdvancesCursors ==
    /\ InLoop
    /\ IsMarker(CurLine)
    /\ count_deletions' = count_deletions + 1
    /\ count_additions' = count_additions + 1
    /\ prev_section' = c_section
    /\ idx' = idx + 1
    /\ UNCHANGED <<text_diff, lines, modified_lines, chunks, chunk, c_section,
                   pc, hunks, exc, ncalls, returned, fileVars>>

\* mutant of lines 107-109: the marker line counts as unchanged text
NoNewline_SetsSection ==
    /\ InLoop
    /\ IsMarker(CurLine)
    /\ count_deletions' = (count_deletions + 1) - 1
    /\ count_additions' = (count_additions + 1) - 1
    /\ c_section' = "unchanged_text"
    /\ prev_section' = c_section'
    /\ idx' = idx + 1
    /\ UNCHANGED <<text_diff, lines, modified_lines, chunks, chunk, pc, hunks,
                   exc, ncalls, returned, fileVars>>

\* lines 107-109: c_section keeps its value
NoNewline ==
    /\ InLoop
    /\ IsMarker(CurLine)
    /\ count_deletions' = (count_deletions + 1) - 1
    /\ count_additions' = (count_additions + 1) - 1
    /\ prev_section' = c_section
    /\ idx' = idx + 1
    /\ UNCHANGED <<text_diff, lines, modified_lines, chunks, chunk, c_section,
                   pc, hunks, exc, ncalls, returned, fileVars>>

\* mutant of lines 116-120: the chunk is appended and stays pending
Context_KeepsChunk ==
    /\ InLoop
    /\ IsContext(CurLine)
    /\ c_section' = "unchanged_text"
    /\ count_deletions' = count_deletions + 1
    /\ count_additions' = count_additions + 1
    /\ IF ClosesChunk(c_section', prev_section)
       THEN /\ chunks' = Append(chunks, chunk)
            /\ chunk' = chunk
       ELSE UNCHANGED <<chunks, chunk>>
    /\ prev_section' = c_section'
    /\ idx' = idx + 1
    /\ UNCHANGED <<text_diff, lines, modified_lines, pc, hunks, exc, ncalls,
                   returned, fileVars>>

\* lines 111-120
Context ==
    /\ InLoop
    /\ IsContext(CurLine)
    /\ c_section' = "unchanged_text"
    /\ count_deletions' = count_deletions + 1
    /\ count_additions' = count_additions + 1
    /\ IF ClosesChunk(c_section', prev_section)
       THEN /\ chunks' = Append(chunks, chunk)
            /\ chunk' = EmptyChunk
       ELSE UNCHANGED <<chunks, chunk>>
    /\ prev_section' = c_section'
    /\ idx' = idx + 1
    /\ UNCHANGED <<text_diff, lines, modified_lines, pc, hunks, exc, ncalls,
                   returned, fileVars>>

\* lines 124-128: the flush at the end of the input, and the return
Return ==
    /\ pc = "get_hunks"
    /\ idx > Len(lines)
    /\ chunks' = IF HasPending(chunk) THEN Append(chunks, chunk) ELSE chunks
    /\ hunks' = chunks'
    /\ pc' = "returned"
    /\ UNCHANGED <<text_diff, lines, idx, modified_lines, count_deletions,
                   count_additions, chunk, c_section, prev_section, exc,
                   ncalls, returned, fileVars>>

(***************************************************************************)
(* get_hunks run once on a diff text.                                      *)
(***************************************************************************)
Init ==
    /\ text_diff \in Texts
    /\ lines = Split(text_diff, NL)
    /\ modified_lines = EmptyChunk
    /\ count_deletions = 0
    /\ count_additions = 0
    /\ chunks = <<>>
    /\ c_section = "unchanged_text"
    /\ prev_section = "unchanged_text"
    /\ chunk = EmptyChunk
    /\ idx = 1
    /\ pc = "get_hunks"
    /\ hunks = <<>>
    /\ exc = "none"
    /\ ncalls = 1
    /\ returned = <<>>
    /\ nfolders = 0
    /\ before = <<>>
    /\ after = <<>>
    /\ metadata = <<>>
    /\ results = <<>>
    /\ name = ""
    /\ reports = <<>>
    /\ df_reports = <<>>
    /\ subdirs = [before |-> {}, after |-> {}]
    /\ df_grouped = {}

Next ==
    \/ Header
    \/ HeaderError
    \/ Deletion
    \/ Addition
    \/ NoNewline
    \/ Context
    \/ Return

Spec == Init /\ [][Next]_vars

(***************************************************************************)
(* A caller that runs get_hunks again and again, on any texts, also after  *)
(* a run that ended in an exception.                                       *)
(***************************************************************************)
CallTexts == {Join(ls, NL) : ls \in SeqsUpTo(DiffLines, MaxCallLines)}

Call ==
    /\ pc \in {"returned", "raised"}
    /\ ncalls < MaxCalls
    /\ ncalls' = ncalls + 1
    /\ \E text \in CallTexts : EnterGetHunks(text)
    /\ UNCHANGED <<hunks, returned, fileVars>>

\* the caller keeps the list that the run just returned
Keep ==
    /\ pc = "returned"
    /\ returned = <<>>
    /\ returned' = <<text_diff, hunks>>
    /\ UNCHANGED <<hunkVars, pc, hunks, exc, ncalls, fileVars>>

InitCalls ==
    /\ text_diff \in CallTexts
    /\ lines = Split(text_diff, NL)
    /\ modified_lines = EmptyChunk
    /\ count_deletions = 0
    /\ count_additions = 0
    /\ chunks = <<>>
    /\ c_section = "unchanged_text"
    /\ prev_section = "unchanged_text"
    /\ chunk = EmptyChunk
    /\ idx = 1
    /\ pc = "get_hunks"
    /\ hunks = <<>>
    /\ exc = "none"
    /\ ncalls = 1
    /\ returned = <<>>
    /\ nfolders = 0
    /\ before = <<>>
    /\ after = <<>>
    /\ metadata = <<>>
    /\ results = <<>>
    /\ name = ""
    /\ reports = <<>>
    /\ df_reports = <<>>
    /\ subdirs = [before |-> {}, after |-> {}]
    /\ df_grouped = {}

NextCalls ==
    \/ Call
    \/ Keep
    \/ Header
    \/ HeaderError
    \/ Deletion
    \/ Addition
    \/ NoNewline
    \/ Context
    \/ Return

SpecCalls == InitCalls /\ [][NextCalls]_vars

(***************************************************************************)
(* get_hunks run once on a diff text whose "@@" lines have several shapes. *)
(***************************************************************************)
\* "@@ 5 7": two numbers, no signs, no counts, no closing "@@"
UnsignedHeader == <<"@", "@", " ", "5", " ", "7">>

\* "@@ -10,3 +12,4": the closing "@@" is missing
OpenHeader ==
    <<"@", "@", " ", "-", "1", "0", ",", "3", " ", "+", "1", "2", ",", "4">>

\* "@@ x 7": the first range is no number
WordHeader == <<"@", "@", " ", "x", " ", "7">>

HeaderShapeLines ==
    HeaderLines \cup
    { UnsignedHeader, OpenHeader, WordHeader, BareHeader,
      <<"-", "y">>, <<"+", "w">>, NoNewlineMarker, <<" ", "x">> }

HeaderTexts == {Join(ls, NL) : ls \in SeqsUpTo(HeaderShapeLines, MaxHeaderLines)}

InitHeaders ==
    /\ text_diff \in HeaderTexts
    /\ lines = Split(text_diff, NL)
    /\ modified_lines = EmptyChunk
    /\ count_deletions = 0
    /\ count_additions = 0
    /\ chunks = <<>>
    /\ c_section = "unchanged_text"
    /\ prev_section = "unchanged_text"
    /\ chunk = EmptyChunk
    /\ idx = 1
    /\ pc = "get_hunks"
    /\ hunks = <<>>
    /\ exc = "none"
    /\ ncalls = 1
    /\ returned = <<>>
    /\ nfolders = 0
    /\ before = <<>>
    /\ after = <<>>
    /\ metadata = <<>>
    /\ results = <<>>
    /\ name = ""
    /\ reports = <<>>
    /\ df_reports = <<>>
    /\ subdirs = [before |-> {}, after |-> {}]
    /\ df_grouped = {}

SpecHeaders == InitHeaders /\ [][Next]_vars

(***************************************************************************)
(* compute_diff_per_file: the file tree it reads.                          *)
(* The two loops over repositories and their bug folders (lines 137-147)   *)
(* visit the bug folders one after the other; what a bug folder holds is   *)
(* drawn when the program reads it: metadata.json at line 151, the         *)
(* listings and the files of before/ and after/ in iterate_over.           *)
(***************************************************************************)
FileNames == {"a.txt", "b.txt"}

\* file contents: "x\ny\nz\n" and "x\nw\nz\n"
FileContents ==
    { <<"x", NL, "y", NL, "z", NL>>, <<"x", NL, "w", NL, "z", NL>> }

\* a directory with regular files only: file name -> content
Dirs == UNION {[names -> FileContents] : names \in SUBSET FileNames}

\* what json.load returns for the metadata.json files that parse; the
\* second one has a key that the report sets as well, the third one is
\* that of another bug
Metadatas ==
    { [human_id |-> "A", id |-> 1, project_name |-> "p", commit_hash |-> "c"],
      [human_id |-> "A", id |-> 1, project_name |-> "p", commit_hash |-> "c",
       n_hunks |-> 0],
      [human_id |-> "A", id |-> 2, project_name |-> "p", commit_hash |-> "c"] }

\* what lines 151-152 end in: open() fails, json.load fails, or a dict
MetadataOutcomes ==
    { [exc |-> "FileNotFoundError", data |-> <<>>],
      [exc |-> "JSONDecodeError", data |-> <<>>] }
    \cup {[exc |-> "none", data |-> m] : m \in Metadatas}

\* all orders of the elements of a finite set
Orders(S) ==
    {o \in [1..Cardinality(S) -> S] : \A x \in S : \E k \in DOMAIN o : o[k] = x}

\* mutant of lines 34-42: every common file is read and appended twice
iterate_over_Twice(folder_master, folder_slave, order) ==
    [k \in 1..(2 * Len(order)) |->
        <<order[(k + 1) \div 2], folder_master[order[(k + 1) \div 2]],
          folder_slave[order[(k + 1) \div 2]]>>]

\* iterate_over, lines 23-43: one item per file name in both directories,
\* in the order the set of common names is iterated in
iterate_over(folder_master, folder_slave, order) ==
    [k \in 1..Len(order) |->
        <<order[k], folder_master[order[k]], folder_slave[order[k]]>>]

files_in_common(folder_master, folder_slave) ==
    DOMAIN folder_master \cap DOMAIN folder_slave

RECURSIVE SumModified(_)
\* lines 170-178: n_modified_lines
SumModified(hs) ==
    IF hs = <<>> THEN 0
    ELSE Max(Len(hs[1].deleted), Len(hs[1].added)) + SumModified(Tail(hs))

\* mutant of lines 181-187: **metadata comes first in the dict display, so
\* the computed fields replace equal keys of metadata
Report_ComputedLast(n_modified_lines, hs, filename, md) ==
    LET own == [n_lines |-> n_modified_lines, n_hunks |-> Len(hs),
                filename |-> filename, n_files |-> 1]
    IN  [k \in DOMAIN own \cup DOMAIN md |->
            IF k \in DOMAIN own THEN own[k] ELSE md[k]]

\* lines 181-187: the dict display; a key of metadata replaces an equal key
\* written before it
Report(n_modified_lines, hs, filename, md) ==
    LET own == [n_lines |-> n_modified_lines, n_hunks |-> Len(hs),
                filename |-> filename, n_files |-> 1]
    IN  [k \in DOMAIN own \cup DOMAIN md |->
            IF k \in DOMAIN md THEN md[k] ELSE own[k]]

(***************************************************************************)
(* compute_diff_per_file, lines 135-190.                                   *)
(***************************************************************************)
\* mutant of line 135: reports = [] is inside the loop over the bug folders
ReadMetadata_NewReports ==
    /\ pc = "bugs"
    /\ nfolders < MaxFolders
    /\ nfolders' = nfolders + 1
    /\ \E m \in MetadataOutcomes :
          /\ m.exc = "none"
          /\ metadata' = m.data
    /\ pc' = "iterate"
    /\ reports' = <<>>
    /\ UNCHANGED <<hunkVars, hunks, exc, ncalls, returned, before, after,
                   results, name, df_reports, subdirs, df_grouped>>

\* lines 142-152: the next bug folder, its metadata.json loads
ReadMetadata ==
    /\ pc = "bugs"
    /\ nfolders < MaxFolders
    /\ nfolders' = nfolders + 1
    /\ \E m \in MetadataOutcomes :
          /\ m.exc = "none"
          /\ metadata' = m.data
    /\ pc' = "iterate"
    /\ UNCHANGED <<hunkVars, hunks, exc, ncalls, returned, before, after,
                   results, name, reports, df_reports, subdirs,
                   df_grouped>>

\* mutant of lines 149-152: a metadata.json that cannot be loaded is taken
\* as an empty dict and the files of the folder are diffed
MetadataError_GoesOn ==
    /\ pc = "bugs"
    /\ nfolders < MaxFolders
    /\ nfolders' = nfolders + 1
    /\ \E m \in MetadataOutcomes :
          /\ m.exc # "none"
          /\ exc' = m.exc
    /\ metadata' = <<>>
    /\ pc' = "iterate"
    /\ UNCHANGED <<hunkVars, hunks, ncalls, returned, before, after,
                   results, name, reports, df_reports, subdirs,
                   df_grouped>>

\* lines 142-152: the next bug folder, open or json.load raises and the
\* exception leaves compute_diff_per_file
MetadataError ==
    /\ pc = "bugs"
    /\ nfolders < MaxFolders
    /\ nfolders' = nfolders + 1
    /\ \E m \in MetadataOutcomes :
          /\ m.exc # "none"
          /\ exc' = m.exc
    /\ pc' = "raised"
    /\ UNCHANGED <<hunkVars, hunks, ncalls, returned, before, after, metadata,
                   results, name, reports, df_reports, subdirs,
                   df_grouped>>

\* lines 154-156 and 18-43: iterate_over lists both directories and reads
\* the files they have in common; os.path.isfile drops the names in subdirs
IterateOver ==
    /\ pc = "iterate"
    /\ \E b \in Dirs, a \in Dirs :
          /\ before' = b
          /\ after' = a
          /\ \E db \in SUBSET (FileNames \ DOMAIN b),
                da \in SUBSET (FileNames \ DOMAIN a) :
                subdirs' = [before |-> db, after |-> da]
          /\ \E order \in Orders(files_in_common(b, a)) :
                results' = iterate_over(b, a, order)
    /\ pc' = "files"
    /\ UNCHANGED <<hunkVars, hunks, exc, ncalls, returned, nfolders, metadata,
                   name, reports, df_reports, df_grouped>>

\* lines 157-162: the diff text of two file contents, from the first "@@"
text_of_diff(content_before, content_after) ==
    FromFirstHeader(
        Join(unified_diff(splitlines(content_before),
                          splitlines(content_after)), NL))

\* lines 154-168: the next item, its diff text, the call of get_hunks
DiffFile ==
    /\ pc = "files"
    /\ results # <<>>
    /\ name' = results[1][1]
    /\ results' = Tail(results)
    /\ EnterGetHunks(text_of_diff(results[1][2], results[1][3]))
    /\ UNCHANGED <<hunks, ncalls, returned, nfolders, before, after, metadata,
                   reports, df_reports, subdirs, df_grouped>>

\* lines 169-188: get_hunks has returned; the report of the file
StoreReport ==
    /\ pc = "returned"
    /\ reports' =
          IF Len(hunks) > 0
          THEN Append(reports, Report(SumModified(hunks), hunks, name, metadata))
          ELSE reports
    /\ pc' = "files"
    \* the locals of get_hunks are gone with its frame
    /\ text_diff' = <<>>
    /\ lines' = <<>>
    /\ modified_lines' = EmptyChunk
    /\ count_deletions' = 0
    /\ count_additions' = 0
    /\ chunks' = <<>>
    /\ c_section' = "unchanged_text"
    /\ prev_section' = "unchanged_text"
    /\ chunk' = EmptyChunk
    /\ idx' = 1
    /\ UNCHANGED <<hunks, exc, ncalls, returned, nfolders, before, after,
                   metadata, results, name, df_reports, subdirs, df_grouped>>

\* mutant of line 154: a bug folder without a file in common is an error
EndFiles_RaisesOnEmpty ==
    /\ pc = "files"
    /\ results = <<>>
    /\ pc' = IF files_in_common(before, after) = {} THEN "raised" ELSE "bugs"
    /\ exc' = IF files_in_common(before, after) = {} THEN "ValueError" ELSE exc
    /\ before' = <<>>
    /\ after' = <<>>
    /\ subdirs' = [before |-> {}, after |-> {}]
    /\ UNCHANGED <<hunkVars, hunks, ncalls, returned, nfolders, metadata,
                   results, name, reports, df_reports, df_grouped>>

\* line 154: no item is left, on to the next bug folder; before, after and
\* subdirs are those of the bug folder the program is in
EndFiles ==
    /\ pc = "files"
    /\ results = <<>>
    /\ pc' = "bugs"
    /\ before' = <<>>
    /\ after' = <<>>
    /\ subdirs' = [before |-> {}, after |-> {}]
    /\ UNCHANGED <<hunkVars, hunks, exc, ncalls, returned, nfolders, metadata,
                   results, name, reports, df_reports, df_grouped>>

\* lines 189-190: no bug folder is left
ReturnTable ==
    /\ pc = "bugs"
    /\ df_reports' = reports
    /\ pc' = "done"
    /\ UNCHANGED <<hunkVars, hunks, exc, ncalls, returned, nfolders, before,
                   after, metadata, results, name, reports, subdirs,
                   df_grouped>>

\* compute_diff_per_file is called: line 135
InitFiles ==
    /\ text_diff = <<>>
    /\ lines = <<>>
    /\ modified_lines = EmptyChunk
    /\ count_deletions = 0
    /\ count_additions = 0
    /\ chunks = <<>>
    /\ c_section = "unchanged_text"
    /\ prev_section = "unchanged_text"
    /\ chunk = EmptyChunk
    /\ idx = 1
    /\ hunks = <<>>
    /\ exc = "none"
    /\ ncalls = 0
    /\ returned = <<>>
    /\ nfolders = 0
    /\ before = <<>>
    /\ after = <<>>
    /\ metadata = <<>>
    /\ results = <<>>
    /\ name = ""
    /\ reports = <<>>
    /\ df_reports = <<>>
    /\ subdirs = [before |-> {}, after |-> {}]
    /\ df_grouped = {}
    /\ pc = "bugs"

\* the diff texts of compute_diff_per_file have no marker line and no
\* header that get_line_numbers rejects
NextFiles ==
    \/ ReadMetadata
    \/ MetadataError
    \/ IterateOver
    \/ DiffFile
    \/ Header
    \/ Deletion
    \/ Addition
    \/ Context
    \/ Return
    \/ StoreReport
    \/ EndFiles
    \/ ReturnTable

SpecFiles == InitFiles /\ [][NextFiles]_vars

(***************************************************************************)
(* compute_diff_per_bug, lines 193-205.  A table of per-file records is    *)
(* the sequence of its rows; the grouped table is the set of its rows.     *)
(***************************************************************************)
\* line 199: the columns of the grouping key
KeyColumns == <<"human_id", "id", "project_name", "commit_hash">>

KeyOf(row) == [k \in 1..Len(KeyColumns) |-> row[KeyColumns[k]]]

\* mutant of line 198: only the key of the first row makes a group
GroupKeys_FirstRow(df) == {KeyOf(df[1])}

\* line 198: one group per distinct key among the rows
GroupKeys(df) == {KeyOf(df[k]) : k \in 1..Len(df)}

RECURSIVE SumColumn_Max(_, _, _)
\* mutant of line 200: the largest value of the group instead of the sum
SumColumn_Max(df, key, column) ==
    IF df = <<>> THEN 0
    ELSE IF KeyOf(Head(df)) = key
         THEN Max(Head(df)[column], SumColumn_Max(Tail(df), key, column))
         ELSE SumColumn_Max(Tail(df), key, column)

RECURSIVE SumColumn(_, _, _)
\* line 200: sum() of a numeric column over the rows of a group
SumColumn(df, key, column) ==
    IF df = <<>> THEN 0
    ELSE IF KeyOf(Head(df)) = key
         THEN Head(df)[column] + SumColumn(Tail(df), key, column)
         ELSE SumColumn(Tail(df), key, column)

\* line 200: sum() of the text column filename joins the names of the group
JoinedNames(df, key) ==
    [k \in 1..Len(SelectSeq(df, LAMBDA row : KeyOf(row) = key)) |->
        SelectSeq(df, LAMBDA row : KeyOf(row) = key)[k].filename]

\* lines 201-204: f'{row["human_id"]} ({row["id"]})'; human_id is one
\* character here
comprehensive_id(human_id, id) ==
    <<human_id, " ", "(">> \o IntToStr(id) \o <<")">>

\* lines 198-204: the row of a group
GroupRow(df, key) ==
    [human_id |-> key[1], id |-> key[2], project_name |-> key[3],
     commit_hash |-> key[4],
     n_lines |-> SumColumn(df, key, "n_lines"),
     n_hunks |-> SumColumn(df, key, "n_hunks"),
     n_files |-> SumColumn(df, key, "n_files"),
     comprehensive_id |-> comprehensive_id(key[1], key[2])]

\* lines 198-204: the grouped table; sum() keeps the text column filename
\* (pandas 2) or leaves it out (numeric_only, pandas 1)
Grouped(df, numeric_only) ==
    IF numeric_only
    THEN {GroupRow(df, key) : key \in GroupKeys(df)}
    ELSE {GroupRow(df, key) @@ [filename |-> JoinedNames(df, key)] :
            key \in GroupKeys(df)}

\* lines 197-205: compute_diff_per_file has returned a table with rows
GroupBy ==
    /\ pc = "done"
    /\ df_reports # <<>>
    /\ \E numeric_only \in BOOLEAN :
          df_grouped' = Grouped(df_reports, numeric_only)
    /\ pc' = "grouped"
    /\ UNCHANGED <<hunkVars, hunks, exc, ncalls, returned, nfolders, before,
                   after, metadata, results, name, reports, df_reports,
                   subdirs>>

\* lines 197-198: the table has no row, so pd.DataFrame.from_records gives
\* it no column and groupby raises KeyError('human_id')
GroupByError ==
    /\ pc = "done"
    /\ df_reports = <<>>
    /\ exc' = "KeyError"
    /\ pc' = "raised"
    /\ UNCHANGED <<hunkVars, hunks, ncalls, returned, fileVars>>

\* compute_diff_per_bug: compute_diff_per_file, then the grouping
NextBugs ==
    \/ NextFiles
    \/ GroupBy
    \/ GroupByError

SpecBugs == InitFiles /\ [][NextBugs]_vars

(***************************************************************************)
(* What the claims speak about: the kinds of the lines of the text and the *)
(* entries of a hunk.                                                      *)
(***************************************************************************)
KindOf(l) ==
    IF IsHeader(l) THEN "header"
    ELSE IF IsDeletion(l) THEN "deletion"
    ELSE IF IsAddition(l) THEN "addition"
    ELSE IF IsMarker(l) THEN "marker"
    ELSE "context"

\* the kind of the k-th line of the text
LineKind(k) == KindOf(RStrip(lines[k]))

\* the lines the loop has gone through
Processed == idx - 1

\* the number of lines of the given kinds among lines from..to
CountKinds(from, to, kinds) ==
    Cardinality({k \in from..to : LineKind(k) \in kinds})

\* the texts (without the prefix) of the lines of one kind among from..to
TextsOfKind(from, to, kind) ==
    LET at == {k \in from..to : LineKind(k) = kind}
        nth(m) == CHOOSE k \in at : Cardinality({j \in at : j <= k}) = m
    IN  [m \in 1..Cardinality(at) |-> Tail(RStrip(lines[nth(m)]))]

EntryTexts(es) == [k \in 1..Len(es) |-> es[k][2]]

EntryNumbers(es) == [k \in 1..Len(es) |-> es[k][1]]

IsSuffix(a, b) ==
    /\ Len(a) <= Len(b)
    /\ SubSeq(b, Len(b) - Len(a) + 1, Len(b)) = a

\* the last line of the given kinds among 1..to, 0 when there is none
LastOfKinds(to, kinds) ==
    LET at == {k \in 1..to : LineKind(k) \in kinds}
    IN  IF at = {} THEN 0 ELSE CHOOSE k \in at : \A j \in at : j <= k

\* where the run of changed lines that ends at the last processed line
\* starts (Processed + 1 when that line is no change)
RunStart ==
    LastOfKinds(Processed, {"header", "context", "marker"}) + 1

Running == pc \in {"get_hunks", "returned"}

HeaderText == HeaderLine(10, 3, 12, 4)

(***************************************************************************)
(* C1: every hunk in the list get_hunks builds and returns has at least    *)
(* one added or one deleted line; neither the flush at a context line nor  *)
(* the flush at the end of the input appends an empty hunk.                *)
(***************************************************************************)
C1_NoEmptyHunk ==
    /\ \A k \in 1..Len(chunks) :
          Len(chunks[k].added) + Len(chunks[k].deleted) >= 1
    /\ \A k \in 1..Len(hunks) :
          Len(hunks[k].added) + Len(hunks[k].deleted) >= 1

\* two hunks closed by context lines, and an empty accumulator at the end
C1_Witness ==
    /\ pc = "returned"
    /\ Len(hunks) = 2
    /\ chunk = EmptyChunk
    /\ LineKind(Len(lines)) = "context"
    /\ LineKind(Len(lines) - 1) \in {"addition", "deletion"}

(***************************************************************************)
(* C3: deletion and addition lines that follow one another with no other   *)
(* line between them are all in the same pending hunk, in order: going     *)
(* from a deletion to an addition (or back) appends nothing to the result; *)
(* a header, one deletion and one addition give exactly one hunk with      *)
(* both lines.                                                             *)
(***************************************************************************)
C3_RunInOneHunk ==
    /\ Running =>
          /\ IsSuffix(TextsOfKind(RunStart, Processed, "deletion"),
                      EntryTexts(chunk.deleted))
          /\ IsSuffix(TextsOfKind(RunStart, Processed, "addition"),
                      EntryTexts(chunk.added))
    /\ (pc = "returned"
          /\ text_diff = Join(<<HeaderText, <<"-", "y">>, <<"+", "w">>>>, NL))
       => hunks = << [added |-> << <<12, <<"w">>>> >>,
                      deleted |-> << <<10, <<"y">>>> >>] >>

\* a deletion directly followed by an addition has been returned
C3_Witness ==
    /\ pc = "returned"
    /\ Len(lines) >= 2
    /\ LineKind(Len(lines) - 1) = "deletion"
    /\ LineKind(Len(lines)) = "addition"
    /\ Len(hunks) = 1
    /\ Len(hunks[1].added) = 1 /\ Len(hunks[1].deleted) = 1

(***************************************************************************)
(* C4: changed lines with a context line between them are in different     *)
(* hunks: the pending hunk holds changes of lines after the last context   *)
(* line only; a header, a deletion, a context line and an addition give    *)
(* two hunks, the deletion alone and then the addition alone.              *)
(***************************************************************************)
C4_ContextSeparates ==
    /\ Running =>
          LET c == LastOfKinds(Processed, {"context"})
          IN  /\ Len(chunk.deleted)
                    <= CountKinds(c + 1, Processed, {"deletion"})
              /\ Len(chunk.added)
                    <= CountKinds(c + 1, Processed, {"addition"})
    /\ (pc = "returned"
          /\ text_diff = Join(<<HeaderText, <<"-", "y">>, <<" ", "x">>,
                                <<"+", "w">>>>, NL))
       => hunks = << [added |-> <<>>, deleted |-> << <<10, <<"y">>>> >>],
                     [added |-> << <<13, <<"w">>>> >>, deleted |-> <<>>] >>

\* a change, a context line and a change have been returned as two hunks
C4_Witness ==
    /\ pc = "returned"
    /\ Len(lines) >= 3
    /\ LineKind(Len(lines) - 2) \in {"deletion", "addition"}
    /\ LineKind(Len(lines) - 1) = "context"
    /\ LineKind(Len(lines)) \in {"deletion", "addition"}
    /\ Len(hunks) >= 2

(***************************************************************************)
(* C5: when the last line of the text is an addition or a deletion, the    *)
(* returned list is not empty and its last hunk ends with that line.       *)
(***************************************************************************)
C5_TrailingChangeFlushed ==
    (pc = "returned" /\ LineKind(Len(lines)) \in {"addition", "deletion"})
    => /\ Len(hunks) >= 1
       /\ LET h == hunks[Len(hunks)]
              t == Tail(RStrip(lines[Len(lines)]))
          IN  IF LineKind(Len(lines)) = "addition"
              THEN Len(h.added) >= 1 /\ h.added[Len(h.added)][2] = t
              ELSE Len(h.deleted) >= 1 /\ h.deleted[Len(h.deleted)][2] = t

\* a text that ends in a deletion after a context line has been returned
C5_Witness ==
    /\ pc = "returned"
    /\ Len(lines) >= 2
    /\ LineKind(Len(lines)) = "deletion"
    /\ LineKind(Len(lines) - 1) = "context"
    /\ Len(hunks) >= 1

(***************************************************************************)
(* C6: after the header "@@ -a,b +c,d @@" a deletion is recorded with      *)
(* a + (context and deletion lines between the header and it) and an       *)
(* addition with c + (context and addition lines between them); marker     *)
(* lines and lines of the other kind do not count. Deletions directly      *)
(* after "@@ -10,3 +12,4 @@" are numbered 10, 11, ...                      *)
(***************************************************************************)
C6_LineNumbers ==
    (pc = "get_hunks" /\ Processed >= 1
        /\ LineKind(Processed) \in {"deletion", "addition"}
        /\ LastOfKinds(Processed, {"header"}) > 0)
    => LET h == LastOfKinds(Processed, {"header"})
       IN  \A r \in HeaderRanges :
              RStrip(lines[h]) = HeaderLine(r[1], r[2], r[3], r[4]) =>
                 IF LineKind(Processed) = "deletion"
                 THEN chunk.deleted[Len(chunk.deleted)][1] =
                         r[1] + CountKinds(h + 1, Processed - 1,
                                           {"context", "deletion"})
                 ELSE chunk.added[Len(chunk.added)][1] =
                         r[3] + CountKinds(h + 1, Processed - 1,
                                           {"context", "addition"})

\* a header that is not the first line, then deletions numbered 10 and 11
C6_Witness ==
    /\ pc = "get_hunks"
    /\ Processed >= 4
    /\ LineKind(Processed - 2) = "header"
    /\ LineKind(Processed - 3) # "header"
    /\ EntryNumbers(chunk.deleted) = <<10, 11>>

(***************************************************************************)
(* C7: get_hunks is a function of its text: a run on a text the caller     *)
(* has run before, with any runs in between, returns the list that the     *)
(* earlier run returned.                                                   *)
(***************************************************************************)
C7_SameTextSameHunks ==
    (pc = "returned" /\ returned # <<>> /\ returned[1] = text_diff)
    => hunks = returned[2]

\* a third run, on the text of a kept run that returned a hunk, after a run
\* that left other cursors and another section behind
C7_Witness ==
    /\ pc = "returned"
    /\ ncalls = 3
    /\ returned # <<>>
    /\ returned[1] = text_diff
    /\ Len(returned[2]) = 1
    /\ hunks = returned[2]

(***************************************************************************)
(* What the claims about compute_diff_per_file speak about.                *)
(***************************************************************************)
\* the step in which the report of the file `name` is stored or skipped
\* (lines 169-188)
ReportStep == pc = "returned" /\ pc' = "files"

\* what open and json.load raise for a metadata.json that is missing or
\* does not parse
MetadataErrors == {"FileNotFoundError", "JSONDecodeError"}

\* the file has the same lines before and after
SameLines(cb, ca) == splitlines(cb) = splitlines(ca)

\* both files have pairwise distinct lines, and the second is the first
\* with one line replaced by a line the first does not have
OneLineReplaced(cb, ca) ==
    LET a == splitlines(cb)
        b == splitlines(ca)
        distinct(ls) == \A i, j \in 1..Len(ls) : ls[i] = ls[j] => i = j
    IN  /\ Len(a) = Len(b)
        /\ distinct(a) /\ distinct(b)
        /\ Cardinality({k \in 1..Len(a) : a[k] # b[k]}) = 1

(***************************************************************************)
(* C2: a bug folder whose metadata.json is missing or does not parse does  *)
(* not abort the batch: compute_diff_per_file does not end in that         *)
(* exception, and the table it returns holds the records of all the other  *)
(* folders.                                                                *)
(***************************************************************************)
C2_FailureConfined ==
    /\ exc \in MetadataErrors => pc # "raised"
    /\ pc = "done" => df_reports = reports

(***************************************************************************)
(* C8: every record emitted for a changed file has n_hunks = the number of *)
(* hunks get_hunks returned for the file's diff, n_lines = the sum over    *)
(* those hunks of max(added lines, deleted lines), and n_files = 1.        *)
(***************************************************************************)
C8_RecordCounts ==
    [][(ReportStep /\ Len(reports') > Len(reports))
       => LET r == reports'[Len(reports')]
          IN  /\ r.n_hunks = Len(hunks)
              /\ r.n_lines = SumModified(hunks)
              /\ r.n_files = 1]_vars

(***************************************************************************)
(* C9: for a file whose lines are pairwise distinct before and after and   *)
(* which differ by one replaced line, exactly one record is emitted for    *)
(* the file, with n_hunks = 1 and n_lines = 1.                             *)
(***************************************************************************)
C9_OneLineReplaced ==
    [][(ReportStep /\ OneLineReplaced(before[name], after[name]))
       => /\ Len(reports') = Len(reports) + 1
          /\ reports'[Len(reports')].filename = name
          /\ reports'[Len(reports')].n_hunks = 1
          /\ reports'[Len(reports')].n_lines = 1]_vars

(***************************************************************************)
(* C10: a record is emitted for a common file exactly when get_hunks       *)
(* returned at least one hunk for its diff; a file with the same lines     *)
(* before and after gives no record; no record has n_hunks = 0.            *)
(***************************************************************************)
C10_RecordIffHunks ==
    /\ [][ReportStep
          => /\ (Len(reports') = Len(reports) + 1) <=> (Len(hunks) > 0)
             /\ Len(reports') \in {Len(reports), Len(reports) + 1}
             /\ SameLines(before[name], after[name]) => reports' = reports]_vars
    /\ [](\A k \in 1..Len(reports) : reports[k].n_hunks # 0)

(***************************************************************************)
(* The files of a bug folder.                                              *)
(***************************************************************************)
\* the file names of the items of iterate_over
ItemNames(items) == {items[k][1] : k \in 1..Len(items)}

\* the loop at line 154 takes the next item and calls get_hunks
DiffStep == pc = "files" /\ pc' = "get_hunks"

\* the names that are regular files in before/ and in after/
InBoth == DOMAIN before \cap DOMAIN after

RowsOf(key) == {k \in 1..Len(df_reports) : KeyOf(df_reports[k]) = key}

RECURSIVE TotalOf(_, _)
\* the sum of a column over a set of rows of the per-file table
TotalOf(rows, column) ==
    IF rows = {} THEN 0
    ELSE df_reports[CHOOSE k \in rows : TRUE][column]
            + TotalOf(rows \ {CHOOSE k \in rows : TRUE}, column)

\* the file names in a set of rows of the per-file table
NamesOf(rows) == {df_reports[k].filename : k \in rows}

\* C12: in the table of compute_diff_per_bug the row of a key has n_lines,
\* n_hunks and n_files equal to the sums of these columns over the per-file
\* records with that key.
C12_AggregationSum ==
    pc = "grouped"
        => \A g \in df_grouped :
              /\ g.n_lines = TotalOf(RowsOf(KeyOf(g)), "n_lines")
              /\ g.n_hunks = TotalOf(RowsOf(KeyOf(g)), "n_hunks")
              /\ g.n_files = TotalOf(RowsOf(KeyOf(g)), "n_files")

\* two per-file records with one hunk and one line each, of two files of a
\* bug, are grouped into a row with n_hunks = 2, n_lines = 2, n_files = 2
C12_Witness ==
    /\ pc = "grouped"
    /\ \E g \in df_grouped :
          /\ Cardinality(RowsOf(KeyOf(g))) = 2
          /\ \A k \in RowsOf(KeyOf(g)) :
                df_reports[k].n_hunks = 1 /\ df_reports[k].n_lines = 1
          /\ g.n_hunks = 2 /\ g.n_lines = 2 /\ g.n_files = 2

\* C13: in every row of the table of compute_diff_per_bug n_files is the
\* number of distinct changed files recorded for the key, also when
\* several bug folders have the key and change a file of the same name.
C13_DistinctFiles ==
    pc = "grouped"
        => \A g \in df_grouped :
              g.n_files = Cardinality(NamesOf(RowsOf(KeyOf(g))))

\* C14: the table of compute_diff_per_bug has exactly one row per distinct
\* key of the per-file records: every key has a row, no two rows have the
\* same key, and a row holds the four key columns with the values of its
\* per-file records.
C14_OneRowPerKey ==
    pc = "grouped"
        => /\ \A k \in 1..Len(df_reports) :
                 \E g \in df_grouped :
                    \A c \in 1..Len(KeyColumns) :
                       /\ KeyColumns[c] \in DOMAIN g
                       /\ g[KeyColumns[c]] = df_reports[k][KeyColumns[c]]
           /\ \A g \in df_grouped : RowsOf(KeyOf(g)) # {}
           /\ \A g, h \in df_grouped : KeyOf(g) = KeyOf(h) => g = h

\* three per-file records of two bugs are grouped into two rows
C14_Witness ==
    /\ pc = "grouped"
    /\ Len(df_reports) = 3
    /\ Cardinality({KeyOf(df_reports[k]) : k \in 1..Len(df_reports)}) = 2
    /\ Cardinality(df_grouped) = 2

(***************************************************************************)
(* The metadata in the per-file records.                                   *)
(***************************************************************************)
\* C15: a record emitted for a bug folder has every key of the metadata of
\* the folder with its value; the metadata stays the same from the moment
\* it is loaded to the end of the folder, so all records of the folder have
\* the same metadata values; and a step never changes a record that was
\* emitted before.
C15_MetadataCarried ==
    /\ [][(ReportStep /\ Len(reports') > Len(reports))
             => \A k \in DOMAIN metadata :
                   /\ k \in DOMAIN reports'[Len(reports')]
                   /\ reports'[Len(reports')][k] = metadata[k]]_vars
    /\ [][(pc \in {"iterate", "files", "get_hunks", "returned"})
             => (metadata' = metadata)]_vars
    /\ [][/\ Len(reports') >= Len(reports)
          /\ \A k \in 1..Len(reports) : reports'[k] = reports[k]]_vars

\* the first bug folder is done, its metadata has a key n_hunks, and its
\* two records have that value
C15_Witness ==
    /\ pc = "files"
    /\ results = <<>>
    /\ nfolders = 1
    /\ "n_hunks" \in DOMAIN metadata
    /\ Len(reports) = 2
    /\ reports[1].n_hunks = metadata.n_hunks
    /\ reports[2].n_hunks = metadata.n_hunks
    /\ reports[1].filename # reports[2].filename

(***************************************************************************)
(* The shape of a header line.                                             *)
(***************************************************************************)
\* a number: one digit or more
IsNumber(tok) == tok # <<>> /\ \A k \in 1..Len(tok) : IsDigit(tok[k])

\* a range of a header: the sign, a number and, after a comma, a count; the
\* count may be left out, as in "@@ -1 +1 @@"
IsRange(tok, sign) ==
    /\ tok # <<>>
    /\ tok[1] = sign
    /\ Len(Split(Tail(tok), ",")) \in {1, 2}
    /\ \A k \in 1..Len(Split(Tail(tok), ",")) :
          IsNumber(Split(Tail(tok), ",")[k])

\* the line has the shape "@@ -a,b +c,d @@"
HasHeaderShape(l) ==
    /\ Len(Split(l, " ")) = 4
    /\ Split(l, " ")[1] = <<"@", "@">>
    /\ IsRange(Split(l, " ")[2], "-")
    /\ IsRange(Split(l, " ")[3], "+")
    /\ Split(l, " ")[4] = <<"@", "@">>

\* C16: get_hunks returns a hunk list only for a text in which every line
\* that starts with "@@" has the shape "@@ -a,b +c,d @@"; on a text with
\* another "@@" line it ends in an error.
C16_MalformedHeaderRejected ==
    pc = "returned"
        => \A k \in 1..Len(lines) :
              IsHeader(RStrip(lines[k])) => HasHeaderShape(RStrip(lines[k]))

(***************************************************************************)
(* A bug folder without a file name in common.                             *)
(***************************************************************************)
\* a step of the program in a bug folder whose before/ and after/ have no
\* regular file of the same name: iterate_over is called on it, or the
\* loop at line 154 runs over its items
EmptyFolderStep ==
    \/ pc = "iterate" /\ DOMAIN before' \cap DOMAIN after' = {}
    \/ pc = "files" /\ InBoth = {}

\* C17: a bug folder whose before/ and after/ have no file name in common
\* raises nothing and adds no record: iterate_over returns no item, the
\* loop over the items ends at once, and the program goes on to the next
\* bug folder with the records it had when it entered this one.
C17_NoCommonFiles ==
    /\ [][EmptyFolderStep
             => /\ pc' \in {"files", "bugs"}
                /\ pc = "iterate" => results' = <<>>
                /\ pc = "files" => pc' = "bugs"
                /\ exc' = "none"
                /\ reports' = reports]_vars
    /\ [][(pc = "bugs" /\ pc' = "iterate") => (reports' = reports)]_vars

\* the program is in its second bug folder, which has a.txt in before/ and
\* b.txt in after/, with the record of the first bug folder
C17_Witness ==
    /\ pc = "files"
    /\ nfolders = 2
    /\ DOMAIN before = {"a.txt"}
    /\ DOMAIN after = {"b.txt"}
    /\ results = <<>>
    /\ Len(reports) = 1

(***************************************************************************)
(* get_hunks as a function of its text, for texts whose header lines       *)
(* get_line_numbers accepts: the locals after each line (section is        *)
(* c_section, which is prev_section too at the end of an iteration).       *)
(***************************************************************************)
LocalsAtEntry ==
    [count_deletions |-> 0, count_additions |-> 0, chunks |-> <<>>,
     chunk |-> EmptyChunk, section |-> "unchanged_text"]

\* lines 80-122 for one line l, after line.rstrip()
LocalsAfter(st, l) ==
    IF IsHeader(l)
    THEN [st EXCEPT
            !.count_deletions = get_line_numbers(l).delete_line_number,
            !.count_additions = get_line_numbers(l).additions_line_number,
            !.chunk = EmptyChunk,
            !.section = "header"]
    ELSE IF IsDeletion(l)
    THEN [st EXCEPT
            !.count_deletions = @ + 1,
            !.chunk.deleted = Append(@, <<st.count_deletions + 1, Tail(l)>>),
            !.section = "del_section"]
    ELSE IF IsAddition(l)
    THEN [st EXCEPT
            !.count_additions = @ + 1,
            !.chunk.added = Append(@, <<st.count_additions + 1, Tail(l)>>),
            !.section = "add_section"]
    ELSE IF IsMarker(l)
    THEN st
    ELSE [st EXCEPT
            !.count_deletions = @ + 1,
            !.count_additions = @ + 1,
            !.chunks = IF ClosesChunk("unchanged_text", st.section)
                       THEN Append(@, st.chunk) ELSE @,
            !.chunk = IF ClosesChunk("unchanged_text", st.section)
                      THEN EmptyChunk ELSE @,
            !.section = "unchanged_text"]

RECURSIVE LocalsAfterLines(_, _, _)
\* lines 79-122 from the k-th line on
LocalsAfterLines(st, ls, k) ==
    IF k > Len(ls) THEN st
    ELSE LocalsAfterLines(LocalsAfter(st, RStrip(ls[k])), ls, k + 1)

\* lines 124-128
FlushedChunks(st) ==
    IF HasPending(st.chunk) THEN Append(st.chunks, st.chunk) ELSE st.chunks

\* what get_hunks returns for a text
hunks_of(text) ==
    FlushedChunks(LocalsAfterLines(LocalsAtEntry, Split(text, NL), 1))

\* every header line of the text is one that get_line_numbers accepts
HeadersAccepted ==
    \A k \in 1..Len(lines) :
       IsHeader(RStrip(lines[k])) => get_line_numbers(RStrip(lines[k])).exc = "none"

\* the run of get_hunks, line by line, returns what the function gives
HunksOfAgrees ==
    (pc = "returned" /\ HeadersAccepted) => hunks = hunks_of(text_diff)

(***************************************************************************)
(* The records of a bug folder.                                            *)
(***************************************************************************)
\* reports after lines 169-188 for a file with the hunks hs
ReportsWith(hs, filename, md) ==
    IF Len(hs) > 0
    THEN Append(reports, Report(SumModified(hs), hs, filename, md))
    ELSE reports

Changes == {"deletion", "addition"}

\* the kind of the last line before the k-th one that is no marker line,
\* "none" when there is no such line
KindBefore(k) ==
    IF LastOfKinds(k - 1, {"header", "context"} \cup Changes) = 0
    THEN "none"
    ELSE LineKind(LastOfKinds(k - 1, {"header", "context"} \cup Changes))

\* the context lines among 1..to that are the first one after a run of
\* changes
ClosingLines(to) ==
    {k \in 1..to : LineKind(k) = "context" /\ KindBefore(k) \in Changes}

\* where the run of changes before the k-th line starts
RunStartBefore(k) == LastOfKinds(k - 1, {"header", "context"}) + 1

\* C19: the pending hunk is appended once, at the first context line after
\* its run of changes: while get_hunks runs, the result list has one hunk
\* per such context line gone through, a hunk appended at that line holds
\* the run before the line, and nothing is pending after a context line;
\* the returned list has one more hunk only when the text ends in a run
\* of changes, so the flush at the end appends no hunk a second time.
C19_FlushTiming ==
    /\ pc = "get_hunks"
          => /\ Len(chunks) = Cardinality(ClosingLines(Processed))
             /\ (Processed >= 1 /\ LineKind(Processed) = "context")
                   => chunk = EmptyChunk
             /\ Processed \in ClosingLines(Processed)
                   => /\ EntryTexts(chunks[Len(chunks)].deleted) =
                            TextsOfKind(RunStartBefore(Processed), Processed,
                                        "deletion")
                      /\ EntryTexts(chunks[Len(chunks)].added) =
                            TextsOfKind(RunStartBefore(Processed), Processed,
                                        "addition")
    /\ pc = "returned"
          => Len(hunks) =
                Cardinality(ClosingLines(Len(lines)))
                   + (IF KindBefore(Len(lines) + 1) \in Changes THEN 1 ELSE 0)

\* header, a deletion and two context lines: one hunk is returned
C19_Witness ==
    /\ pc = "returned"
    /\ Len(lines) = 4
    /\ LineKind(1) = "header"
    /\ LineKind(2) = "deletion"
    /\ LineKind(3) = "context"
    /\ LineKind(4) = "context"
    /\ Len(hunks) = 1
    /\ Len(hunks[1].deleted) = 1

(***************************************************************************)
(* Header lines.                                                           *)
(***************************************************************************)
\* the loop goes through a context line
ContextStep == InLoop /\ IsContext(CurLine) /\ idx' = idx + 1

\* C20: after a header line the pending chunk has no added and no deleted
\* entry, whatever was pending before; and a context line whose last line
\* before it (marker lines aside) is a header appends nothing to the
\* result list and leaves the pending chunk empty.
C20_HeaderResets ==
    /\ []((pc = "get_hunks" /\ Processed >= 1
             /\ LineKind(Processed) = "header")
            => (chunk.added = <<>> /\ chunk.deleted = <<>>))
    /\ [][(ContextStep /\ KindBefore(idx) = "header")
             => (chunks' = chunks /\ chunk' = EmptyChunk)]_vars

\* header, a deletion, a second header and a context line: the second
\* header empties the pending chunk, the context line appends nothing, and
\* the returned list is empty
C20_Witness ==
    /\ pc = "returned"
    /\ Len(lines) = 4
    /\ LineKind(1) = "header"
    /\ LineKind(2) = "deletion"
    /\ LineKind(3) = "header"
    /\ LineKind(4) = "context"
    /\ chunk = EmptyChunk
    /\ hunks = <<>>

(***************************************************************************)
(* The two cursors.                                                        *)
(***************************************************************************)
\* the loop goes through a line of the given kind
LineStep(kind) == InLoop /\ KindOf(CurLine) = kind /\ idx' = idx + 1

\* C21: a deletion line leaves the add cursor as it was and moves the
\* delete cursor up by one; an addition line leaves the delete cursor as it
\* was and moves the add cursor up by one; a context line moves both up by
\* one.
C21_CursorFrame ==
    /\ [][LineStep("deletion")
             => /\ count_additions' = count_additions
                /\ count_deletions' = count_deletions + 1]_vars
    /\ [][LineStep("addition")
             => /\ count_deletions' = count_deletions
                /\ count_additions' = count_additions + 1]_vars
    /\ [][LineStep("context")
             => /\ count_deletions' = count_deletions + 1
                /\ count_additions' = count_additions + 1]_vars

\* "@@ -10,3 +12,4 @@", a deletion, an addition and a context line: the
\* cursors start at 9 and 11 and end at 11 and 13
C21_Witness ==
    /\ pc = "returned"
    /\ Len(lines) = 4
    /\ RStrip(lines[1]) = HeaderText
    /\ LineKind(2) = "deletion"
    /\ LineKind(3) = "addition"
    /\ LineKind(4) = "context"
    /\ count_deletions = 11
    /\ count_additions = 13

\* the text without its marker lines
WithoutMarkers(text) ==
    Join(SelectSeq(Split(text, NL), LAMBDA l : ~IsMarker(RStrip(l))), NL)

\* C22: a marker line leaves both cursors as they were, and get_hunks
\* returns for a text what it returns for the text without its marker
\* lines, so every entry has the line number it has without them.
C22_MarkerKeepsCursors ==
    /\ [][LineStep("marker")
             => /\ count_deletions' = count_deletions
                /\ count_additions' = count_additions]_vars
    /\ [](pc = "returned" => hunks = hunks_of(WithoutMarkers(text_diff)))

\* "@@ -10,3 +12,4 @@", a deletion, a marker line and an addition: the
\* addition has the number 12
C22_Witness ==
    /\ pc = "returned"
    /\ Len(lines) = 4
    /\ RStrip(lines[1]) = HeaderText
    /\ LineKind(2) = "deletion"
    /\ LineKind(3) = "marker"
    /\ LineKind(4) = "addition"
    /\ Len(hunks) = 1
    /\ EntryNumbers(hunks[1].deleted) = <<10>>
    /\ EntryNumbers(hunks[1].added) = <<12>>

(***************************************************************************)
(* Marker lines and the sections.                                          *)
(***************************************************************************)
\* C27: a marker line leaves the section, the result list and the pending
\* chunk as they are; and a context line that comes after a run of changes
\* and marker lines appends the pending chunk, which holds the run, and
\* leaves an empty one.
C27_MarkerKeepsSection ==
    /\ [][LineStep("marker")
             => /\ c_section' = c_section
                /\ prev_section' = c_section
                /\ chunks' = chunks
                /\ chunk' = chunk]_vars
    /\ [][(LineStep("context") /\ idx > 1 /\ LineKind(idx - 1) = "marker"
              /\ KindBefore(idx) \in Changes)
             => /\ HasPending(chunk)
                /\ chunks' = Append(chunks, chunk)
                /\ chunk' = EmptyChunk]_vars

\* a deletion, a marker line, an addition and a context line: one hunk
\* with the deletion and the addition
C27_Witness ==
    /\ pc = "returned"
    /\ Len(lines) = 4
    /\ LineKind(1) = "deletion"
    /\ LineKind(2) = "marker"
    /\ LineKind(3) = "addition"
    /\ LineKind(4) = "context"
    /\ Len(hunks) = 1
    /\ Len(hunks[1].deleted) = 1
    /\ Len(hunks[1].added) = 1

(***************************************************************************)
(* The changes of the text and the entries of the returned hunks.          *)
(***************************************************************************)
RECURSIVE TotalEntries(_, _)
\* the number of entries of one side ("added" or "deleted") over the hunks
TotalEntries(hs, side) ==
    IF hs = <<>> THEN 0
    ELSE Len(Head(hs)[side]) + TotalEntries(Tail(hs), side)

\* C25: no change is lost or duplicated: the hunks that get_hunks returns
\* have, over all of them, as many deleted entries as the text has deletion
\* lines and as many added entries as it has addition lines, also when a
\* run of changes is followed by a header line with no context line
\* between them.
C25_NoChangeLost ==
    pc = "returned"
        => /\ TotalEntries(hunks, "deleted") =
                 CountKinds(1, Len(lines), {"deletion"})
           /\ TotalEntries(hunks, "added") =
                 CountKinds(1, Len(lines), {"addition"})

\* the line numbers of the entries go up by one from entry to entry
Consecutive(es) ==
    \A k \in 1..(Len(es) - 1) : es[k + 1][1] = es[k][1] + 1

\* es is bs, or bs with one entry more at its end
SameOrOneMore(es, bs) ==
    es = bs \/ (Len(es) = Len(bs) + 1 /\ SubSeq(es, 1, Len(bs)) = bs)

\* C26: in every hunk, appended or pending, the deleted entries have
\* consecutive increasing line numbers and so have the added entries; the
\* loop goes through the text from its first line to its last, an entry is
\* put at the end of the pending chunk and the pending chunk at the end of
\* the result list, so entries and hunks are in the order of the text.
C26_ConsecutiveInOrder ==
    /\ [](Running
            => /\ \A k \in 1..Len(chunks) :
                     Consecutive(chunks[k].deleted) /\ Consecutive(chunks[k].added)
               /\ Consecutive(chunk.deleted) /\ Consecutive(chunk.added)
               /\ pc = "returned"
                     => \A k \in 1..Len(hunks) :
                           Consecutive(hunks[k].deleted)
                              /\ Consecutive(hunks[k].added))
    /\ [][(InLoop /\ pc' = "get_hunks")
             => /\ idx' = idx + 1
                /\ chunks' \in {chunks, Append(chunks, chunk)}
                /\ \/ chunk' = EmptyChunk
                   \/ /\ SameOrOneMore(chunk'.deleted, chunk.deleted)
                      /\ SameOrOneMore(chunk'.added, chunk.added)]_vars
    /\ [][(pc = "get_hunks" /\ pc' = "returned")
             => hunks' \in {chunks, Append(chunks, chunk)}]_vars

\* "@@ -10,3 +12,4 @@", a deletion, an addition and a deletion: one hunk,
\* deleted entries 10 and 11, added entry 12
C26_Witness ==
    /\ pc = "returned"
    /\ Len(lines) = 4
    /\ RStrip(lines[1]) = HeaderText
    /\ LineKind(2) = "deletion"
    /\ LineKind(3) = "addition"
    /\ LineKind(4) = "deletion"
    /\ Len(hunks) = 1
    /\ EntryNumbers(hunks[1].deleted) = <<10, 11>>
    /\ EntryNumbers(hunks[1].added) = <<12>>

(***************************************************************************)
(* The file-header lines of the generated diff.                            *)
(***************************************************************************)
\* what "\n".join gives for the two file-header items "--- \n" and
\* "+++ \n" of difflib, up to the first hunk header
FilePreface ==
    <<"-", "-", "-", " ", NL, NL, "+", "+", "+", " ", NL, NL>>

\* the items of the generated diff of the file the program is at
DiffItems == unified_diff(splitlines(before[name]), splitlines(after[name]))

\* the items after the two file-header items that begin with the sign
BodyItems(sign) ==
    {k \in 3..Len(DiffItems) : DiffItems[k][1] = sign}

SetOf(ls) == {ls[k] : k \in 1..Len(ls)}

\* the entries of one side over all the hunks, as a set
EntriesOf(hs, side) ==
    UNION {SetOf(hs[k][side]) : k \in 1..Len(hs)}

\* C23: in compute_diff_per_file the text given to get_hunks is the joined
\* diff without its preface: it begins with the first "@@" (or is empty when
\* there is no diff); the "---" and "+++" file-header lines are no deletion
\* and no addition: get_hunks sees as many deletions and additions as the
\* diff has "-" and "+" items after the file headers, every entry of a hunk
\* is a line of the before file (deleted) or of the after file (added),
\* and n_lines and n_hunks are computed from those hunks.
C23_PrefaceDropped ==
    (pc = "returned" /\ name \in InBoth)
        => LET full == Join(DiffItems, NL)
           IN  /\ full = <<>> => text_diff = <<>>
               /\ full # <<>>
                     => /\ full = FilePreface \o text_diff
                        /\ StartsWith(text_diff, <<"@", "@">>)
               /\ Len(modified_lines.deleted) = Cardinality(BodyItems("-"))
               /\ Len(modified_lines.added) = Cardinality(BodyItems("+"))
               /\ \A en \in EntriesOf(hunks, "deleted") :
                     en[2] \in SetOf(splitlines(before[name]))
               /\ \A en \in EntriesOf(hunks, "added") :
                     en[2] \in SetOf(splitlines(after[name]))
               /\ Len(hunks) <= Cardinality(BodyItems("-") \cup BodyItems("+"))
               /\ SumModified(hunks) <=
                     Max(Cardinality(BodyItems("-")), Cardinality(BodyItems("+")))

\* a file with one line replaced: the diff has the preface, the text given
\* to get_hunks begins with "@@", and the one hunk has the two lines
C23_Witness ==
    /\ pc = "returned"
    /\ name \in InBoth
    /\ before[name] # after[name]
    /\ StartsWith(Join(DiffItems, NL), <<"-", "-", "-">>)
    /\ StartsWith(text_diff, <<"@", "@">>)
    /\ Len(hunks) = 1
    /\ EntryTexts(hunks[1].deleted) = << <<"y">> >>
    /\ EntryTexts(hunks[1].added) = << <<"w">> >>

(***************************************************************************)
(* Metadata first.                                                         *)
(***************************************************************************)
\* C24: metadata.json of a bug folder is loaded before a file of the folder
\* is listed, read or diffed: the directories are read only in a folder
\* whose metadata has just been loaded, a folder whose metadata.json cannot
\* be loaded has no file read and no record appended, and every record
\* there is has the metadata fields beside its file counts.
C24_MetadataFirst ==
    /\ [][(pc' = "iterate" /\ pc # "iterate")
             => /\ pc = "bugs"
                /\ nfolders' = nfolders + 1
                /\ metadata' \in Metadatas
                /\ reports' = reports
                /\ results' = <<>>]_vars
    /\ [][(results' # results /\ results' # <<>> /\ pc # "files")
             => pc = "iterate" /\ metadata' = metadata]_vars
    /\ [][(pc = "bugs" /\ pc' = "raised")
             => /\ exc' \in MetadataErrors
                /\ reports' = reports
                /\ results' = results
                /\ before' = before /\ after' = after
                /\ text_diff' = text_diff]_vars
    /\ [](\A k \in 1..Len(reports) :
            /\ SetOf(KeyColumns) \subseteq DOMAIN reports[k]
            /\ {"n_lines", "n_hunks", "filename", "n_files"}
                  \subseteq DOMAIN reports[k])
    /\ [](pc \in {"iterate", "files", "get_hunks", "returned"}
            => metadata \in Metadatas)

\* the second bug folder's metadata.json does not load after the first
\* folder gave a record: that record is all there is
C24_Witness ==
    /\ pc = "raised"
    /\ exc \in MetadataErrors
    /\ nfolders = 2
    /\ Len(reports) = 1
    /\ results = <<>>

(***************************************************************************)
(* The computed fields of a record.                                        *)
(***************************************************************************)
\* C28: the fields n_lines, n_hunks, filename and n_files of every record
\* hold the values computed from the diff of the file, whatever
\* metadata.json holds, also when it has a key of one of these names.
C28_ComputedFieldsKept ==
    [][(ReportStep /\ Len(reports') > Len(reports))
       => LET r == reports'[Len(reports')]
              hs == hunks_of(text_of_diff(before[name], after[name]))
          IN  /\ r.n_lines = SumModified(hs)
              /\ r.n_hunks = Len(hs)
              /\ r.filename = name
              /\ r.n_files = 1]_vars

(***************************************************************************)
(* The line numbers of the pipeline.                                       *)
(***************************************************************************)
\* t is line n (1-based) of the content
IsLineOf(content, n, t) ==
    /\ n \in 1..Len(splitlines(content))
    /\ splitlines(content)[n] = t

\* C29: in compute_diff_per_file the number stored with a deleted line is
\* the 1-based position of the line in the before file, and the number
\* stored with an added line is its 1-based position in the after file.
C29_PipelineLineNumbers ==
    (pc = "returned" /\ name \in InBoth)
        => /\ \A en \in EntriesOf(hunks, "deleted") :
                 IsLineOf(before[name], en[1], en[2])
           /\ \A en \in EntriesOf(hunks, "added") :
                 IsLineOf(after[name], en[1], en[2])

(***************************************************************************)
(* No per-file record at all.                                              *)
(***************************************************************************)
\* C30: when compute_diff_per_file returns a table without a record,
\* compute_diff_per_bug raises nothing and returns an empty table of bug
\* records.
C30_EmptyTableGrouped ==
    [][(pc = "done" /\ df_reports = <<>>)
       => /\ pc' = "grouped"
          /\ exc' = "none"
          /\ df_grouped' = {}]_vars

====
